---- MODULE Spec2Model ----
(***************************************************************************)
(* KeywordGenius: the application shell (App.tsx), the generation client   *)
(* (services/geminiService), the statistics memo and the results table     *)
(* (components/KeywordTable.tsx) as one state machine.                     *)
(*                                                                         *)
(* JavaScript strings are TLA+ strings; wherever the code looks inside a   *)
(* string (trim, toLowerCase, includes, <, join) the model works on its    *)
(* UTF-16 code units, obtained through CodeUnits.                          *)
(***************************************************************************)
EXTENDS Integers, Sequences, FiniteSets, TLC

(* Bounds of the model. *)
\* longest keyword array the service returns
MaxLen == 3
\* most calls of the generation client in flight at once
MaxInFlight == 2

----------------------------------------------------------------------------
(* Strings *)

\* The code units of every string the model uses.
CodeUnitsTable ==
       ("" :> <<>>)
    @@ (" " :> <<32>>)
    @@ (" a" :> <<32, 97>>)
    @@ ("digital marketing" :> <<100, 105, 103, 105, 116, 97, 108, 32, 109, 97, 114, 107, 101, 116, 105, 110, 103>>)
    @@ ("Buy" :> <<66, 117, 121>>)
    @@ ("buy" :> <<98, 117, 121>>)
    @@ ("what" :> <<119, 104, 97, 116>>)
    @@ ("Informational" :> <<73, 110, 102, 111, 114, 109, 97, 116, 105, 111, 110, 97, 108>>)
    @@ ("awareness" :> <<97, 119, 97, 114, 101, 110, 101, 115, 115>>)
    @@ ("Tea" :> <<84, 101, 97>>)
    @@ ("bU" :> <<98, 85>>)
    @@ ("Commercial" :> <<67, 111, 109, 109, 101, 114, 99, 105, 97, 108>>)
    @@ ("Long Tail" :> <<76, 111, 110, 103, 32, 84, 97, 105, 108>>)
    @@ ("commercial" :> <<99, 111, 109, 109, 101, 114, 99, 105, 97, 108>>)
    @@ ("Transactional" :> <<84, 114, 97, 110, 115, 97, 99, 116, 105, 111, 110, 97, 108>>)
    @@ ("constructor" :> <<99, 111, 110, 115, 116, 114, 117, 99, 116, 111, 114>>)
    @@ ("high intent" :> <<104, 105, 103, 104, 32, 105, 110, 116, 101, 110, 116>>)
    @@ ("two\nlines" :> <<116, 119, 111, 10, 108, 105, 110, 101, 115>>)
    @@ ("Keyword" :> <<75, 101, 121, 119, 111, 114, 100>>)
    @@ ("Type" :> <<84, 121, 112, 101>>)
    @@ ("Intent" :> <<73, 110, 116, 101, 110, 116>>)
    @@ ("Score" :> <<83, 99, 111, 114, 101>>)
    @@ ("Importance" :> <<73, 109, 112, 111, 114, 116, 97, 110, 99, 101>>)
    @@ ("function Object() { [native code] }" :> <<102, 117, 110, 99, 116, 105, 111, 110, 32, 79, 98, 106, 101, 99, 116, 40, 41, 32, 123, 32, 91, 110, 97, 116, 105, 118, 101, 32, 99, 111, 100, 101, 93, 32, 125>>)

CodeUnits(s) == CodeUnitsTable[s]

\* String.prototype.toLowerCase on one code unit (the strings are ASCII).
LowerUnit(c) == IF c >= 65 /\ c <= 90 THEN c + 32 ELSE c

\* String.prototype.toLowerCase
toLowerCase(u) == [i \in 1..Len(u) |-> LowerUnit(u[i])]

\* White space and line terminators String.prototype.trim strips (ASCII part).
IsWhiteSpace(c) == c \in {9, 10, 11, 12, 13, 32}

RECURSIVE TrimStart(_)
TrimStart(u) ==
    IF Len(u) > 0 /\ IsWhiteSpace(Head(u)) THEN TrimStart(Tail(u)) ELSE u

RECURSIVE TrimEnd(_)
TrimEnd(u) ==
    IF Len(u) > 0 /\ IsWhiteSpace(u[Len(u)])
    THEN TrimEnd(SubSeq(u, 1, Len(u) - 1))
    ELSE u

\* A faulty variant of trim: the string as it is.
trimNothing(u) == u

\* String.prototype.trim
trim(u) == TrimEnd(TrimStart(u))

\* Whether u starts with p at position i (1-based).
RECURSIVE MatchesAt(_, _, _, _)
MatchesAt(u, p, i, j) ==
    IF j > Len(p) THEN TRUE
    ELSE IF i + j - 1 > Len(u) THEN FALSE
    ELSE IF u[i + j - 1] # p[j] THEN FALSE
    ELSE MatchesAt(u, p, i, j + 1)

\* String.prototype.includes: scan the start positions left to right.
RECURSIVE IncludesFrom(_, _, _)
IncludesFrom(u, p, i) ==
    IF i + Len(p) - 1 > Len(u) THEN FALSE
    ELSE IF MatchesAt(u, p, i, 1) THEN TRUE
    ELSE IncludesFrom(u, p, i + 1)

includes(u, p) == IncludesFrom(u, p, 1)

\* The relational comparison a < b of two strings: by code units, a proper
\* prefix being smaller.
RECURSIVE StringLess(_, _)
StringLess(a, b) ==
    IF Len(b) = 0 THEN FALSE
    ELSE IF Len(a) = 0 THEN TRUE
    ELSE IF Head(a) < Head(b) THEN TRUE
    ELSE IF Head(a) > Head(b) THEN FALSE
    ELSE StringLess(Tail(a), Tail(b))

\* Number to string, for the integers of the model.
RECURSIVE DigitsOf(_)
DigitsOf(n) ==
    IF n < 10 THEN <<48 + n>> ELSE Append(DigitsOf(n \div 10), 48 + (n % 10))

NumberToString(n) == IF n < 0 THEN <<45>> \o DigitsOf(0 - n) ELSE DigitsOf(n)

\* Array.prototype.join on strings given as code units.
RECURSIVE join(_, _)
join(parts, sep) ==
    IF Len(parts) = 0 THEN <<>>
    ELSE IF Len(parts) = 1 THEN parts[1]
    ELSE parts[1] \o sep \o join(Tail(parts), sep)

----------------------------------------------------------------------------
(* Values *)

\* null and undefined
Null == [type |-> "null"]
Undefined == [type |-> "undefined"]

\* A number, a string (by its code units), an array, a plain object.
JsNumber(n) == [type |-> "number", value |-> n]
JsString(u) == [type |-> "string", value |-> u]
JsArray(items) == [type |-> "array", items |-> items]
JsObject == [type |-> "object"]

IsArray(v) == v.type = "array"

\* The KeywordEntry records the external service draws its answers from:
\* categories inside and outside the declared enums (one of them the name
\* of a property every object inherits), tied and distinct scores, keywords
\* differing only in case, a text with a line break.
KeywordEntry(k, t, i, p, imp) ==
    [keyword |-> k, keywordType |-> t, searchIntent |-> i,
     priorityScore |-> p, importance |-> imp]

EntryTable ==
       ("K1" :> KeywordEntry("Buy", "Commercial", "Transactional", 90, "high intent"))
    @@ ("K2" :> KeywordEntry("buy", "Long Tail", "Commercial", 41, "two\nlines"))
    @@ ("K3" :> KeywordEntry("Tea", "commercial", "constructor", 41, "high intent"))
    @@ ("K4" :> KeywordEntry("what", "Commercial", "Informational", 40, "awareness"))

EntryTokens == DOMAIN EntryTable

Entries == {EntryTable[t] : t \in EntryTokens}

\* The enums of the types module.
SearchIntent == {"Informational", "Commercial", "Transactional", "Navigational"}
KeywordType == {"Short Tail", "Long Tail", "Question", "Commercial"}

----------------------------------------------------------------------------
(* Generation client *)

\* The text of a response is a sequence of JSON tokens; an entry token
\* stands for the object text of that entry. The lists of up to n entries,
\* none of them twice.
RECURSIVE TokenLists(_)
TokenLists(n) ==
    IF n = 0 THEN {<<>>}
    ELSE LET shorter == TokenLists(n - 1)
         IN  shorter \cup UNION {{Append(l, t) : t \in EntryTokens \ {l[i] : i \in DOMAIN l}} :
                                    l \in {s \in shorter : Len(s) = n - 1}}

RECURSIVE Separated(_)
Separated(l) ==
    IF Len(l) = 0 THEN <<>>
    ELSE IF Len(l) = 1 THEN <<l[1]>>
    ELSE <<l[1], ",">> \o Separated(Tail(l))

ArrayText(l) == <<"[">> \o Separated(l) \o <<"]">>

\* What the service may send as text: arrays of entries, the same cut
\* short or with a trailing comma, an object, a number, the empty string.
ResponseTexts ==
    {ArrayText(l) : l \in TokenLists(MaxLen)}
    \cup {<<"[">> \o Separated(l) : l \in TokenLists(1)}
    \cup {<<"[">> \o Separated(l) \o <<",", "]">> : l \in TokenLists(1) \ {<<>>}}
    \cup {<<"[", "K1", "K1", "]">>}
    \cup {<<"{", "}">>, <<"42">>, <<>>}

SyntaxError == [name |-> "SyntaxError", message |-> "Unexpected end of JSON input"]

Returned(v) == [ok |-> TRUE, value |-> v]
Thrown(e) == [ok |-> FALSE, error |-> e]

\* The elements of an array text from token i on; expect is what may come
\* next: "first" (an element or the closing bracket), "element", "separator".
RECURSIVE ParseElements(_, _, _, _)
ParseElements(text, i, acc, expect) ==
    IF i > Len(text) THEN Thrown(SyntaxError)
    ELSE LET t == text[i] IN
         IF t = "]" /\ expect \in {"first", "separator"}
         THEN IF i = Len(text) THEN Returned(JsArray(acc)) ELSE Thrown(SyntaxError)
         ELSE IF t \in EntryTokens /\ expect \in {"first", "element"}
         THEN ParseElements(text, i + 1, Append(acc, EntryTable[t]), "separator")
         ELSE IF t = "," /\ expect = "separator"
         THEN ParseElements(text, i + 1, acc, "element")
         ELSE Thrown(SyntaxError)

\* JSON.parse: any JSON value parses, not only arrays.
JSONParse(text) ==
    IF Len(text) = 0 THEN Thrown(SyntaxError)
    ELSE IF text = <<"{", "}">> THEN Returned(JsObject)
    ELSE IF text = <<"42">> THEN Returned(JsNumber(42))
    ELSE IF text[1] = "[" THEN ParseElements(text, 2, <<>>, "first")
    ELSE Thrown(SyntaxError)

\* How ai.models.generateContent settles: it rejects with an error (whose
\* message may be empty), or resolves with a response whose text is absent
\* or one of ResponseTexts.
Rejected(m) == [settled |-> "rejected", error |-> [name |-> "Error", message |-> m]]
Resolved(hasText, text) == [settled |-> "resolved", hasText |-> hasText, text |-> text]

ServiceOutcomes ==
    {Rejected(m) : m \in {"", "fetch failed"}}
    \cup {Resolved(FALSE, <<>>)}
    \cup {Resolved(TRUE, text) : text \in ResponseTexts}

\* generateKeywords from the point the service call settles: what the
\* promise it returned settles with.
generateKeywords(outcome) ==
    IF outcome.settled = "rejected" THEN Thrown(outcome.error)
    ELSE IF ~outcome.hasText \/ Len(outcome.text) = 0
    THEN Thrown([name |-> "Error", message |-> "No data returned from Gemini."])
    ELSE JSONParse(outcome.text)

----------------------------------------------------------------------------
(* Arrays and plain objects *)

\* The elements of a sequence.
Range(s) == {s[i] : i \in DOMAIN s}

\* Array.prototype.sort with a consistent comparator, given as a function
\* on pairs of elements: the sort is stable (ES2019), an element goes after
\* every earlier element that does not compare greater.
RECURSIVE InsertSorted(_, _, _)
InsertSorted(sorted, x, cmp) ==
    IF Len(sorted) = 0 THEN <<x>>
    ELSE IF cmp[<<Head(sorted), x>>] <= 0
    THEN <<Head(sorted)>> \o InsertSorted(Tail(sorted), x, cmp)
    ELSE <<x>> \o sorted

RECURSIVE SortFrom(_, _, _)
SortFrom(items, sorted, cmp) ==
    IF Len(items) = 0 THEN sorted
    ELSE SortFrom(Tail(items), InsertSorted(sorted, Head(items), cmp), cmp)

ArraySort(items, cmp) == SortFrom(items, <<>>, cmp)

\* Every order of the elements of a sequence.
Orderings(s) ==
    {[i \in DOMAIN s |-> s[p[i]]] :
        p \in {q \in [DOMAIN s -> DOMAIN s] : \A i, j \in DOMAIN s : q[i] = q[j] => i = j}}

\* A plain object is the sequence of its own properties in insertion
\* order. What a property read finds on Object.prototype when the object
\* has no own property of that name: the constructor function.
ObjectPrototype ==
    ("constructor" :> [type |-> "function",
                       source |-> CodeUnits("function Object() { [native code] }")])

HasOwn(obj, name) == \E i \in DOMAIN obj : obj[i].name = name

\* obj[name]
Get(obj, name) ==
    IF HasOwn(obj, name)
    THEN (CHOOSE p \in Range(obj) : p.name = name).value
    ELSE IF name \in DOMAIN ObjectPrototype THEN ObjectPrototype[name]
    ELSE Undefined

\* obj[name] = value
Set(obj, name, value) ==
    IF HasOwn(obj, name)
    THEN [i \in DOMAIN obj |->
            IF obj[i].name = name THEN [name |-> name, value |-> value] ELSE obj[i]]
    ELSE Append(obj, [name |-> name, value |-> value])

\* (x || 0) + 1: undefined and 0 are falsy; a number is incremented, anything
\* else is turned into a string and "1" is appended.
OrZeroPlusOne(x) ==
    IF x.type = "undefined" THEN JsNumber(1)
    ELSE IF x.type = "number" THEN JsNumber(x.value + 1)
    ELSE IF x.type = "function" THEN JsString(x.source \o <<49>>)
    ELSE JsString(x.value \o <<49>>)

\* Whether a property name is an integer index: the canonical decimal form
\* of an integer from 0 to 2^32 - 2 (as digits: 4294967294).
IsDigits(u) == Len(u) > 0 /\ \A i \in DOMAIN u : u[i] >= 48 /\ u[i] <= 57

LargestIndex == <<52, 50, 57, 52, 57, 54, 55, 50, 57, 52>>

\* The order of two canonical decimal forms by the number they denote.
DecimalLess(a, b) == Len(a) < Len(b) \/ (Len(a) = Len(b) /\ StringLess(a, b))

IsIntegerIndex(name) ==
    LET u == CodeUnits(name) IN
    /\ IsDigits(u)
    /\ (Len(u) = 1 \/ u[1] # 48)
    /\ ~DecimalLess(LargestIndex, u)

\* Object.entries: integer indices in ascending order, then the other
\* names in insertion order.
ObjectEntries(obj) ==
    LET isIndex == [p \in Range(obj) |-> IsIntegerIndex(p.name)]
        indexed == SelectSeq(obj, LAMBDA p : isIndex[p])
        named == SelectSeq(obj, LAMBDA p : ~isIndex[p])
        ascending == [pair \in Range(indexed) \X Range(indexed) |->
                        IF DecimalLess(CodeUnits(pair[1].name), CodeUnits(pair[2].name))
                        THEN -1 ELSE 1]
    IN  ArraySort(indexed, ascending) \o named

----------------------------------------------------------------------------
(* Statistics *)

\* Math.round of the quotient num / den (den > 0): the nearest integer, a
\* half going to the next integer up, which is floor(num / den + 1/2).
\* A faulty variant of MathRound: Math.floor.
MathFloor(num, den) == num \div den

MathRound(num, den) == (2 * num + den) \div (2 * den)

\* The memo's callback threw (keywords is no array: forEach is missing).
Threw == [type |-> "threw"]

\* The forEach pass: counts per searchIntent and keywordType, and the sum.
RECURSIVE CountPass(_, _)
CountPass(items, acc) ==
    IF Len(items) = 0 THEN acc
    ELSE LET k == Head(items) IN
         CountPass(Tail(items),
            [intentCounts |-> Set(acc.intentCounts, k.searchIntent,
                                  OrZeroPlusOne(Get(acc.intentCounts, k.searchIntent))),
             typeCounts |-> Set(acc.typeCounts, k.keywordType,
                                OrZeroPlusOne(Get(acc.typeCounts, k.keywordType))),
             totalScore |-> acc.totalScore + k.priorityScore])

\* A faulty variant of ComputeStats: no early return for the empty list.
ComputeStatsWithoutEmptyCheck(kw) ==
    IF ~IsArray(kw) THEN Threw
    ELSE LET pass == CountPass(kw.items,
                        [intentCounts |-> <<>>, typeCounts |-> <<>>, totalScore |-> 0])
         IN  [type |-> "stats",
              totalKeywords |-> Len(kw.items),
              avgPriority |-> IF Len(kw.items) = 0 THEN 0
                              ELSE MathRound(pass.totalScore, Len(kw.items)),
              intentDistribution |-> ObjectEntries(pass.intentCounts),
              typeDistribution |-> ObjectEntries(pass.typeCounts)]

\* The stats memo of App, recomputed when keywords changes.
ComputeStats(kw) ==
    IF ~IsArray(kw) THEN Threw
    ELSE IF Len(kw.items) = 0 THEN Null
    ELSE LET pass == CountPass(kw.items,
                        [intentCounts |-> <<>>, typeCounts |-> <<>>, totalScore |-> 0])
         IN  [type |-> "stats",
              totalKeywords |-> Len(kw.items),
              avgPriority |-> MathRound(pass.totalScore, Len(kw.items)),
              intentDistribution |-> ObjectEntries(pass.intentCounts),
              typeDistribution |-> ObjectEntries(pass.typeCounts)]

\* Whether a comparator, given as a function on pairs of the elements of S,
\* is a consistent comparator in the sense of Array.prototype.sort.
IsConsistentComparator(S, cmp) ==
    /\ \A a \in S : cmp[<<a, a>>] = 0
    /\ \A a, b \in S :
          /\ cmp[<<a, b>>] = 0 => cmp[<<b, a>>] = 0
          /\ cmp[<<a, b>>] < 0 => cmp[<<b, a>>] > 0
    /\ \A a, b, c \in S :
          /\ (cmp[<<a, b>>] = 0 /\ cmp[<<b, c>>] = 0) => cmp[<<a, c>>] = 0
          /\ (cmp[<<a, b>>] < 0 /\ cmp[<<b, c>>] < 0) => cmp[<<a, c>>] < 0
          /\ (cmp[<<a, b>>] > 0 /\ cmp[<<b, c>>] > 0) => cmp[<<a, c>>] > 0

\* (a, b) => b.value - a.value as sort takes it: the difference of two
\* numbers; with a value that is no number the difference is NaN, which sort
\* takes as 0.
valueDescending(a, b) ==
    IF a.value.type = "number" /\ b.value.type = "number"
    THEN b.value.value - a.value.value
    ELSE 0

\* distribution.sort((a, b) => b.value - a.value), in place: the results it
\* may leave. A consistent comparator leaves the one order of the stable
\* sort; with an inconsistent one the order is implementation-defined.
SortByValueDescending(dist) ==
    LET cmp == [pair \in Range(dist) \X Range(dist) |-> valueDescending(pair[1], pair[2])]
    IN  IF IsConsistentComparator(Range(dist), cmp)
        THEN {ArraySort(dist, cmp)}
        ELSE Orderings(dist)

----------------------------------------------------------------------------
(* Results table *)

\* The intent select's options, and the headers that can be clicked.
IntentOptions == {"All"} \cup SearchIntent
SortableHeaders == {"keyword", "keywordType", "searchIntent", "priorityScore"}

\* What the user types into the table's filter box.
SearchTerms == {"", "bU"}

\* A faulty variant of matchesFilter: no toLowerCase.
matchesFilterCaseSensitive(item, term, intent) ==
    LET matchesSearch == includes(CodeUnits(item.keyword), CodeUnits(term))
        matchesIntent == intent = "All" \/ item.searchIntent = intent
    IN  matchesSearch /\ matchesIntent

\* The filter callback of filteredData.
matchesFilter(item, term, intent) ==
    LET matchesSearch == includes(toLowerCase(CodeUnits(item.keyword)),
                                  toLowerCase(CodeUnits(term)))
        matchesIntent == intent = "All" \/ item.searchIntent = intent
    IN  matchesSearch /\ matchesIntent

filteredDataOf(data, term, intent) ==
    SelectSeq(data, LAMBDA item : matchesFilter(item, term, intent))

\* typeof a[field] for a KeywordEntry.
TypeOfField(field) == IF field = "priorityScore" THEN "number" ELSE "string"

\* A faulty variant of compare: the direction is ignored.
compareAscendingOnly(a, b, field, direction) ==
    IF TypeOfField(field) = "number"
    THEN a[field] - b[field]
    ELSE LET aString == toLowerCase(CodeUnits(a[field]))
             bString == toLowerCase(CodeUnits(b[field]))
         IN  IF StringLess(aString, bString) THEN -1
             ELSE IF StringLess(bString, aString) THEN 1
             ELSE 0

\* The comparator of sortedData.
compare(a, b, field, direction) ==
    IF TypeOfField(field) = "number"
    THEN IF direction = "asc" THEN a[field] - b[field] ELSE b[field] - a[field]
    ELSE LET aString == toLowerCase(CodeUnits(a[field]))
             bString == toLowerCase(CodeUnits(b[field]))
         IN  IF StringLess(aString, bString)
             THEN (IF direction = "asc" THEN -1 ELSE 1)
             ELSE IF StringLess(bString, aString)
             THEN (IF direction = "asc" THEN 1 ELSE -1)
             ELSE 0

sortedDataOf(data, term, intent, field, direction) ==
    LET filtered == filteredDataOf(data, term, intent) IN
    ArraySort(filtered,
              [pair \in Range(filtered) \X Range(filtered) |->
                  compare(pair[1], pair[2], field, direction)])

\* The template literal of one CSV row.
Quote == <<34>>
Comma == <<44>>
LineFeed == <<10>>

csvRow(row) ==
    Quote \o CodeUnits(row.keyword) \o Quote \o Comma
    \o Quote \o CodeUnits(row.keywordType) \o Quote \o Comma
    \o Quote \o CodeUnits(row.searchIntent) \o Quote \o Comma
    \o NumberToString(row.priorityScore) \o Comma
    \o Quote \o CodeUnits(row.importance) \o Quote

headers == <<"Keyword", "Type", "Intent", "Score", "Importance">>

\* csvContent of downloadCSV for the rows given.
csvContentOf(rows) ==
    join(<<join([i \in DOMAIN headers |-> CodeUnits(headers[i])], Comma)>>
         \o [i \in DOMAIN rows |-> csvRow(rows[i])],
         LineFeed)

----------------------------------------------------------------------------
(* State *)

VARIABLES
    seedKeyword,    \* App: the text of the seed input
    keywords,       \* App: the value last given to setKeywords
    loading,        \* App
    error,          \* App: Null or a message
    hasSearched,    \* App
    stats,          \* App: the value of the stats memo as the last render left it
    searchTerm,     \* KeywordTable
    sortField,      \* KeywordTable
    sortDirection,  \* KeywordTable
    filterIntent,   \* KeywordTable
    pending,        \* the calls of generateKeywords not yet settled, oldest first
    shownFrom,      \* which submission's data keywords holds, if any
    download        \* the CSV file handed to the browser for the table as it stands

appVars == <<seedKeyword, keywords, loading, error, hasSearched, stats>>
tableVars == <<searchTerm, sortField, sortDirection, filterIntent>>
requestVars == <<pending, shownFrom>>
vars == <<appVars, tableVars, requestVars, download>>

\* What the user types into the seed input, and the first of the three
\* "Try:" buttons, which differ in their text only.
TypedSeeds == {"", " ", " a"}
Suggestions == {"digital marketing"}

Message(m) == [type |-> "string", value |-> m]

\* !error, keywords.length > 0 and stats as conditions.
Truthy(v) ==
    /\ v.type \notin {"null", "undefined"}
    /\ (v.type = "string" => v.value # "")

\* The condition under which App renders the results section, and with it
\* the table.
ResultsShownFor(kw, st, ld, err, searched) ==
    /\ searched
    /\ ~ld
    /\ ~Truthy(err)
    /\ IsArray(kw) /\ Len(kw.items) > 0
    /\ Truthy(st)

ResultsShown == ResultsShownFor(keywords, stats, loading, error, hasSearched)

\* A render that threw unmounted the whole tree: nothing of the
\* application is left to receive an event or a state update.
Mounted == stats # Threw

\* What a render of App leaves in the stats memo: the summary cards of the
\* results section sort both distributions in place.
RenderedStats(memo, shownNow) ==
    IF ~shownNow THEN {memo}
    ELSE {[memo EXCEPT !.intentDistribution = byIntent, !.typeDistribution = byType] :
            byIntent \in SortByValueDescending(memo.intentDistribution),
            byType \in SortByValueDescending(memo.typeDistribution)}

\* The state every mount of KeywordTable starts from.
TableInit ==
    /\ searchTerm = ""
    /\ sortField = "priorityScore"
    /\ sortDirection = "desc"
    /\ filterIntent = "All"

TableReset ==
    /\ searchTerm' = ""
    /\ sortField' = "priorityScore"
    /\ sortDirection' = "desc"
    /\ filterIntent' = "All"
    /\ download' = Null

\* The table keeps its state while it stays mounted and starts anew on
\* every mount.
TableAfterRender ==
    IF ResultsShown /\ ResultsShown'
    THEN UNCHANGED <<tableVars, download>>
    ELSE TableReset

Init ==
    /\ seedKeyword = ""
    /\ keywords = JsArray(<<>>)
    /\ loading = FALSE
    /\ error = Null
    /\ hasSearched = FALSE
    /\ stats = Null
    /\ TableInit
    /\ pending = <<>>
    /\ shownFrom = "none"
    /\ download = Null

----------------------------------------------------------------------------
(* Application shell *)

\* A faulty variant of ControlsDisabled: the form stays enabled.
ControlsNeverDisabled == FALSE

\* The seed input and the submit button are disabled while loading.
ControlsDisabled == loading

\* onChange of the seed input.
SetSeedKeyword(seed) ==
    /\ Mounted
    /\ ~ControlsDisabled
    /\ seedKeyword' = seed
    /\ stats' \in RenderedStats(stats, ResultsShown)
    /\ UNCHANGED <<keywords, loading, error, hasSearched, tableVars, requestVars, download>>

\* onClick of a "Try:" button, rendered until the first search.
ClickSuggestion(seed) ==
    /\ Mounted
    /\ ~hasSearched
    /\ seedKeyword' = seed
    /\ UNCHANGED <<keywords, loading, error, hasSearched, stats, tableVars,
                   requestVars, download>>

\* handleGenerate up to its await. A submit event reaches the form only
\* while its controls are enabled; the button is disabled on a blank seed
\* as well, which the handler's own guard repeats.
handleGenerate ==
    IF Len(trim(CodeUnits(seedKeyword))) = 0
    THEN UNCHANGED vars
    ELSE /\ Len(pending) < MaxInFlight
         /\ loading' = TRUE
         /\ error' = Null
         /\ keywords' = JsArray(<<>>)
         /\ hasSearched' = TRUE
         /\ stats' = ComputeStats(JsArray(<<>>))
         /\ pending' = Append([i \in DOMAIN pending |-> [pending[i] EXCEPT !.superseded = TRUE]],
                               [seed |-> seedKeyword, superseded |-> FALSE])
         /\ shownFrom' = "none"
         /\ TableReset
         /\ UNCHANGED seedKeyword

Submit ==
    /\ Mounted
    /\ ~ControlsDisabled
    /\ handleGenerate

\* A faulty variant of ErrorMessage: the message alone.
ErrorMessageWithoutFallback(err) == err.message

\* err.message || "Failed to generate keywords. Please try again."
ErrorMessage(err) ==
    IF err.message # "" THEN err.message
    ELSE "Failed to generate keywords. Please try again."

\* The sequence without its element i.
Without(s, i) == SubSeq(s, 1, i - 1) \o SubSeq(s, i + 1, Len(s))

\* A faulty variant of Settle: setLoading(false) at the end of the try block
\* instead of in finally, so a failed call leaves loading as it was.
SettleWithoutFinally(i, outcome) ==
    /\ i \in DOMAIN pending
    /\ pending' = Without(pending, i)
    /\ UNCHANGED <<seedKeyword, hasSearched>>
    /\ IF ~Mounted
       THEN UNCHANGED <<keywords, loading, error, stats, shownFrom, tableVars, download>>
       ELSE LET result == generateKeywords(outcome) IN
            /\ IF result.ok
               THEN /\ loading' = FALSE
                    /\ keywords' = result.value
                    /\ shownFrom' = IF pending[i].superseded THEN "superseded" ELSE "latest"
                    /\ error' = error
                    /\ stats' \in RenderedStats(ComputeStats(result.value),
                                    ResultsShownFor(result.value, ComputeStats(result.value),
                                                    FALSE, error, hasSearched))
               ELSE /\ error' = Message(ErrorMessage(result.error))
                    /\ UNCHANGED <<keywords, shownFrom, loading, stats>>
            /\ TableAfterRender

\* handleGenerate from its await on, when the i-th call in flight settles.
Settle(i, outcome) ==
    /\ i \in DOMAIN pending
    /\ pending' = Without(pending, i)
    /\ UNCHANGED <<seedKeyword, hasSearched>>
    /\ IF ~Mounted
       THEN UNCHANGED <<keywords, loading, error, stats, shownFrom, tableVars, download>>
       ELSE LET result == generateKeywords(outcome) IN
            /\ loading' = FALSE
            /\ IF result.ok
               THEN /\ keywords' = result.value
                    /\ shownFrom' = IF pending[i].superseded THEN "superseded" ELSE "latest"
                    /\ error' = error
                    /\ stats' \in RenderedStats(ComputeStats(result.value),
                                    ResultsShownFor(result.value, ComputeStats(result.value),
                                                    FALSE, error, hasSearched))
               ELSE /\ error' = Message(ErrorMessage(result.error))
                    /\ UNCHANGED <<keywords, shownFrom>>
                    /\ stats' \in RenderedStats(stats,
                                    ResultsShownFor(keywords, stats, FALSE,
                                                    Message(ErrorMessage(result.error)),
                                                    hasSearched))
            /\ TableAfterRender

----------------------------------------------------------------------------
(* Results table: events *)

\* The table is there to receive events while the results are shown.
TableMounted == Mounted /\ ResultsShown

filteredData == filteredDataOf(keywords.items, searchTerm, filterIntent)

sortedData == sortedDataOf(keywords.items, searchTerm, filterIntent, sortField, sortDirection)

SetSearchTerm(term) ==
    /\ TableMounted
    /\ searchTerm' = term
    /\ download' = Null
    /\ UNCHANGED <<appVars, requestVars, sortField, sortDirection, filterIntent>>

SetFilterIntent(intent) ==
    /\ TableMounted
    /\ filterIntent' = intent
    /\ download' = Null
    /\ UNCHANGED <<appVars, requestVars, searchTerm, sortField, sortDirection>>

\* A faulty variant of sortAfter: another field keeps the direction.
sortAfterKeepingDirection(field, activeField, direction) ==
    IF field = activeField
    THEN [field |-> activeField, direction |-> IF direction = "asc" THEN "desc" ELSE "asc"]
    ELSE [field |-> field, direction |-> direction]

\* The sort state handleSort(field) sets.
sortAfter(field, activeField, direction) ==
    IF field = activeField
    THEN [field |-> activeField, direction |-> IF direction = "asc" THEN "desc" ELSE "asc"]
    ELSE [field |-> field, direction |-> "desc"]

handleSort(field) ==
    /\ TableMounted
    /\ sortField' = sortAfter(field, sortField, sortDirection).field
    /\ sortDirection' = sortAfter(field, sortField, sortDirection).direction
    /\ download' = Null
    /\ UNCHANGED <<appVars, requestVars, searchTerm, filterIntent>>

downloadCSV ==
    /\ TableMounted
    /\ download' = [type |-> "file", name |-> "keywords.csv",
                    content |-> csvContentOf(sortedData)]
    /\ UNCHANGED <<appVars, requestVars, tableVars>>

----------------------------------------------------------------------------
(* Specification *)

Next ==
    \/ \E seed \in TypedSeeds : SetSeedKeyword(seed)
    \/ \E seed \in Suggestions : ClickSuggestion(seed)
    \/ Submit
    \/ \E i \in 1..MaxInFlight, outcome \in ServiceOutcomes : Settle(i, outcome)
    \/ \E term \in SearchTerms : SetSearchTerm(term)
    \/ \E intent \in IntentOptions : SetFilterIntent(intent)
    \/ \E field \in SortableHeaders : handleSort(field)
    \/ downloadCSV

Spec == Init /\ [][Next]_vars

----------------------------------------------------------------------------
(* Properties *)

\* The ways a generation request fails.
CallFails(outcome) == outcome.settled = "rejected"
NoTextPayload(outcome) ==
    outcome.settled = "resolved" /\ (~outcome.hasText \/ outcome.text = <<>>)
ParseFails(outcome) ==
    outcome.settled = "resolved" /\ outcome.hasText /\ outcome.text # <<>>
    /\ ~JSONParse(outcome.text).ok

GenericMessage == "Failed to generate keywords. Please try again."

\* C1: whenever a generation request fails (the call fails, no text comes
\* back, or the text does not parse), the step that settles it leaves error
\* holding a non-empty message (the error's own, or the generic one when it
\* has none), loading false and the keyword list empty.
C1_FailureEndsInErrorState ==
    [][\A i \in 1..MaxInFlight : \A outcome \in ServiceOutcomes :
         (Settle(i, outcome)
            /\ (CallFails(outcome) \/ NoTextPayload(outcome) \/ ParseFails(outcome)))
         => /\ error'.type = "string"
            /\ error'.value # ""
            /\ CallFails(outcome) =>
                 error'.value = IF outcome.error.message = "" THEN GenericMessage
                                ELSE outcome.error.message
            /\ NoTextPayload(outcome) => error'.value = "No data returned from Gemini."
            /\ loading' = FALSE
            /\ keywords' = JsArray(<<>>)]_vars

\* A call that failed with an error without message has settled.
C1_Witness ==
    /\ error = Message(GenericMessage)
    /\ ~loading /\ hasSearched /\ pending = <<>>

\* C2: the keyword list never holds the result of a submission that a
\* newer accepted submission has superseded.
C2_OnlyLatestResultShown == shownFrom # "superseded"

\* The result of the latest submission is on display.
C2_Witness == ResultsShown /\ shownFrom = "latest" /\ pending = <<>>

\* A seed made of white space only (or empty).
Blank(seed) == \A i \in DOMAIN CodeUnits(seed) : IsWhiteSpace(CodeUnits(seed)[i])

\* C3: a submit (from idle, success or error: loading is false) with a
\* blank seed changes nothing and starts no request; with any other seed it
\* sets loading, clears error and the keyword list and starts one request,
\* all in the same step.
C3_SubmitGuardAndReset ==
    [][Submit =>
         /\ ~loading
         /\ IF Blank(seedKeyword)
            THEN UNCHANGED vars
            ELSE /\ loading' = TRUE
                 /\ error' = Null
                 /\ keywords' = JsArray(<<>>)
                 /\ stats' = Null
                 /\ Len(pending') = Len(pending) + 1
                 /\ pending'[Len(pending')].seed = seedKeyword]_vars

\* A seed with white space around it was accepted: the request is out, and
\* nothing of an earlier result or error is left.
C3_Witness ==
    /\ loading /\ error = Null /\ keywords = JsArray(<<>>)
    /\ Len(pending) = 1 /\ pending[1].seed = " a"

RECURSIVE SumOfScores(_)
SumOfScores(items) ==
    IF Len(items) = 0 THEN 0 ELSE Head(items).priorityScore + SumOfScores(Tail(items))

\* C4: for every non-empty keyword list the statistics are there and
\* avgPriority is the integer nearest to sum / count, a half going up:
\* avgPriority - 1/2 <= sum / count < avgPriority + 1/2.
C4_AvgPriorityRoundsHalfUp ==
    (IsArray(keywords) /\ Len(keywords.items) > 0) =>
        LET n == Len(keywords.items)
            sum == SumOfScores(keywords.items)
        IN  /\ stats.type = "stats"
            /\ 2 * n * stats.avgPriority - n <= 2 * sum
            /\ 2 * sum < 2 * n * stats.avgPriority + n

\* Scores 90 and 41: the mean 65.5 is shown as 66.
C4_Witness ==
    /\ ResultsShown
    /\ Len(keywords.items) = 2
    /\ SumOfScores(keywords.items) = 131
    /\ stats.avgPriority = 66

\* How often a value occurs in a sequence.
Occurrences(s, x) == Cardinality({i \in DOMAIN s : s[i] = x})

\* The sum of the counts of a distribution (of numbers).
RECURSIVE SumOfCounts(_)
SumOfCounts(dist) ==
    IF Len(dist) = 0 THEN 0 ELSE Head(dist).value.value + SumOfCounts(Tail(dist))

\* A distribution counts exactly the categories given, each once.
CountsExactly(dist, categories) ==
    /\ \A i \in DOMAIN dist : dist[i].value.type = "number"
    /\ {dist[i].name : i \in DOMAIN dist} = Range(categories)
    /\ \A i, j \in DOMAIN dist : dist[i].name = dist[j].name => i = j
    /\ \A i \in DOMAIN dist : dist[i].value.value = Occurrences(categories, dist[i].name)
    /\ SumOfCounts(dist) = Len(categories)

\* C5: for every non-empty keyword list totalKeywords is its length and
\* each distribution has one category per distinct string, with the number
\* of entries carrying that string as its count, the counts adding up to
\* totalKeywords.
C5_DistributionsCountEveryString ==
    (IsArray(keywords) /\ Len(keywords.items) > 0) =>
        /\ stats.type = "stats"
        /\ stats.totalKeywords = Len(keywords.items)
        /\ CountsExactly(stats.intentDistribution,
                         [i \in DOMAIN keywords.items |-> keywords.items[i].searchIntent])
        /\ CountsExactly(stats.typeDistribution,
                         [i \in DOMAIN keywords.items |-> keywords.items[i].keywordType])

\* C6: statistics are null exactly when the keyword list is the empty
\* list, so in idle, during loading and in the error state; statistics that
\* are there never count zero keywords.
C6_StatsAbsentIffNoKeywords ==
    /\ (stats = Null) <=> (keywords = JsArray(<<>>))
    /\ stats.type = "stats" => stats.totalKeywords > 0
    /\ (~hasSearched \/ loading \/ error # Null) => stats = Null

\* The service answered with the empty array: a success without statistics.
C6_Witness ==
    /\ hasSearched /\ ~loading /\ error = Null
    /\ keywords = JsArray(<<>>) /\ stats = Null

\* keyword contains term, both taken in lower case.
ContainsIgnoringCase(kw, term) ==
    LET k == CodeUnits(kw)
        t == CodeUnits(term)
    IN  \E start \in 0..(Len(k) - Len(t)) :
            \A j \in 1..Len(t) : LowerUnit(k[start + j]) = LowerUnit(t[j])

ShouldBeShown(e) ==
    /\ ContainsIgnoringCase(e.keyword, searchTerm)
    /\ (filterIntent = "All" \/ e.searchIntent = filterIntent)

\* C7: the rows of the table are the entries that contain the search term
\* (case ignored) and carry the selected intent (any intent under "All"):
\* each of them as often as the list has it, and no other entry.
C7_RowsAreExactlyTheMatches ==
    TableMounted =>
        \A e \in Entries :
            Occurrences(sortedData, e) =
                IF ShouldBeShown(e) THEN Occurrences(keywords.items, e) ELSE 0

\* Term "bU" and intent Commercial keep one of two entries.
C7_Witness ==
    /\ TableMounted
    /\ searchTerm = "bU" /\ filterIntent = "Commercial"
    /\ Len(keywords.items) = 2 /\ Len(sortedData) = 1

Reverse(s) == [i \in DOMAIN s |-> s[Len(s) + 1 - i]]

DistinctScores(items) ==
    \A i, j \in DOMAIN items : items[i].priorityScore = items[j].priorityScore => i = j

\* C8: when the entries have pairwise distinct scores, the rows sorted on
\* priorityScore ascending are the rows sorted descending in reverse, and
\* the descending rows go from the highest score to the lowest.
C8_AscendingReversesDescending ==
    (TableMounted /\ DistinctScores(keywords.items)) =>
        LET asc == sortedDataOf(keywords.items, searchTerm, filterIntent,
                                "priorityScore", "asc")
            desc == sortedDataOf(keywords.items, searchTerm, filterIntent,
                                 "priorityScore", "desc")
        IN  /\ asc = Reverse(desc)
            /\ \A i, j \in DOMAIN desc :
                   i < j => desc[i].priorityScore > desc[j].priorityScore
            /\ (sortField = "priorityScore" /\ sortDirection = "asc") => sortedData = asc
            /\ (sortField = "priorityScore" /\ sortDirection = "desc") => sortedData = desc

\* Two rows of different score, shown lowest first after a click.
C8_Witness ==
    /\ TableMounted
    /\ sortField = "priorityScore" /\ sortDirection = "asc"
    /\ Len(sortedData) = 2
    /\ sortedData[1].priorityScore < sortedData[2].priorityScore

\* C9: the table starts from priorityScore descending; a click on the
\* active header flips the direction and keeps the field, a click on another
\* header makes it the active field with direction desc; no click changes
\* the search text or the intent filter.
C9_HeaderClicks ==
    /\ [](~TableMounted => (sortField = "priorityScore" /\ sortDirection = "desc"))
    /\ [][\A field \in SortableHeaders :
            handleSort(field) =>
                /\ IF field = sortField
                   THEN /\ sortField' = sortField
                        /\ sortDirection' # sortDirection
                        /\ sortDirection' \in {"asc", "desc"}
                   ELSE /\ sortField' = field
                        /\ sortDirection' = "desc"
                /\ searchTerm' = searchTerm
                /\ filterIntent' = filterIntent]_vars

\* A header other than the initial one, clicked twice, under a search text
\* and a filter set before.
C9_Witness ==
    /\ TableMounted
    /\ sortField = "keyword" /\ sortDirection = "asc"
    /\ searchTerm = "bU" /\ filterIntent = "Commercial"

\* The lines of a text: its pieces between line feeds.
LineFeeds(u) == {i \in DOMAIN u : u[i] = 10}

\* The k-th line feed of u; position 0 for k = 0, one past the end after the last.
LineFeedAt(u, k) ==
    IF k = 0 THEN 0
    ELSE IF k > Cardinality(LineFeeds(u)) THEN Len(u) + 1
    ELSE CHOOSE b \in LineFeeds(u) : Cardinality({c \in LineFeeds(u) : c < b}) = k - 1

SplitLines(u) ==
    [k \in 1..(Cardinality(LineFeeds(u)) + 1) |->
        SubSeq(u, LineFeedAt(u, k - 1) + 1, LineFeedAt(u, k) - 1)]

HeaderLine == CodeUnits("Keyword") \o Comma \o CodeUnits("Type") \o Comma
              \o CodeUnits("Intent") \o Comma \o CodeUnits("Score") \o Comma
              \o CodeUnits("Importance")

\* C10: the exported file is the header line followed by one line per
\* visible row, in the visible order: a table of n rows exports n + 1 lines.
C10_CsvHasOneLinePerVisibleRow ==
    download # Null =>
        LET lines == SplitLines(download.content) IN
        /\ Len(lines) = Len(sortedData) + 1
        /\ lines[1] = HeaderLine
        /\ \A i \in DOMAIN sortedData : lines[i + 1] = csvRow(sortedData[i])

\* A payload that is text but not the text of a JSON array of keyword
\* records: invalid JSON, or JSON of another shape (an object, a number).
NotAKeywordArray(outcome) ==
    /\ outcome.settled = "resolved" /\ outcome.hasText /\ outcome.text # <<>>
    /\ outcome.text \notin {ArrayText(l) : l \in TokenLists(MaxLen)}

\* C11: a request whose payload is not a JSON array of keyword records
\* fails: the step that settles it leaves an error message and the keyword
\* list empty, and the shell never holds anything but an array as its
\* keyword list.
C11_NonArrayPayloadFails ==
    /\ [](IsArray(keywords))
    /\ [][\A i \in 1..MaxInFlight : \A outcome \in ServiceOutcomes :
            (Settle(i, outcome) /\ NotAKeywordArray(outcome))
            => /\ error'.type = "string" /\ error'.value # ""
               /\ keywords' = JsArray(<<>>)]_vars

\* The distinct values of a sequence, in the order of their first
\* occurrence.
RECURSIVE FirstSeen(_)
FirstSeen(s) ==
    IF Len(s) = 0 THEN <<>>
    ELSE LET before == FirstSeen(SubSeq(s, 1, Len(s) - 1))
             last == s[Len(s)]
         IN  IF last \in Range(before) THEN before ELSE Append(before, last)

\* The categories of a distribution, in the order it lists them.
CategoryNames(dist) == [i \in DOMAIN dist |-> dist[i].name]

\* C12: whenever statistics are present, each distribution lists its
\* categories in the order of their first appearance in the keyword list,
\* and the memo keeps that order through every render.
C12_DistributionsKeepFirstSeenOrder ==
    stats.type = "stats" =>
        /\ CategoryNames(stats.intentDistribution)
             = FirstSeen([i \in DOMAIN keywords.items |-> keywords.items[i].searchIntent])
        /\ CategoryNames(stats.typeDistribution)
             = FirstSeen([i \in DOMAIN keywords.items |-> keywords.items[i].keywordType])

\* C13 as stated: a submit with a seed that is not blank, arriving while a
\* request is in flight, is accepted and starts a second request.
C13_OverlappingSubmitStartsSecondRequest ==
    (Mounted /\ Len(pending) >= 1 /\ Len(pending) < MaxInFlight /\ ~Blank(seedKeyword))
        => ENABLED (Submit /\ Len(pending') = Len(pending) + 1)

\* C13, amended: no submit arrives while a request is in flight, for the
\* seed input and the submit button are disabled while loading. An accepted
\* submit finds no request in flight, so at most one is in flight and none
\* is ever superseded; the step that settles it sets loading to false and
\* leaves none in flight, and the state after it is that request's outcome.
C13_NoSubmitWhileInFlight ==
    /\ [](pending # <<>> => ControlsDisabled /\ ~ENABLED Submit)
    /\ [](Len(pending) <= 1 /\ \A i \in DOMAIN pending : ~pending[i].superseded)
    /\ [][(Submit /\ pending' # pending) => pending = <<>>]_vars
    /\ [][\A i \in 1..MaxInFlight : \A outcome \in ServiceOutcomes :
            Settle(i, outcome) =>
                /\ loading' = FALSE /\ pending' = <<>>
                /\ LET result == generateKeywords(outcome) IN
                   IF result.ok THEN keywords' = result.value /\ error' = Null
                   ELSE error' = Message(ErrorMessage(result.error))
                        /\ keywords' = JsArray(<<>>)]_vars

\* A request is in flight, the seed is not blank, and the controls are
\* disabled.
C13_Witness ==
    /\ loading /\ ControlsDisabled /\ ~Blank(seedKeyword)
    /\ pending = <<[seed |-> "digital marketing", superseded |-> FALSE]>>

\* C14: loading is true exactly while a request is in flight. An accepted
\* submit sets it, it goes back to false only in a step that settles a
\* request, every such step sets it to false, and while it is true neither
\* results nor an error are on display.
C14_LoadingIffRequestInFlight ==
    /\ [](loading <=> pending # <<>>)
    /\ [](loading => ~ResultsShown /\ ~Truthy(error))
    /\ [][(Submit /\ ~Blank(seedKeyword)) => (loading' /\ pending' # <<>>)]_vars
    /\ [][(loading /\ ~loading') => Len(pending') < Len(pending)]_vars
    /\ [][\A i \in 1..MaxInFlight : \A outcome \in ServiceOutcomes :
            Settle(i, outcome) => ~loading']_vars

\* A request that came back without text has settled: loading is false
\* again, nothing is in flight and the error is on display.
C14_Witness ==
    /\ ~loading /\ pending = <<>> /\ hasSearched
    /\ error = Message("No data returned from Gemini.")

====
